---- MODULE Spec2Model ----
(***************************************************************************)
(* AlferesFilter (src/src/data_filters/filters.py): the step-wise          *)
(* filtering loop, the outlier streak and the backward/forward recovery    *)
(* with its merge and splice.                                              *)
(*                                                                         *)
(* A filter object is a record; the methods of the class are operators     *)
(* from a filter record (and the outlier flags the filtering algorithm     *)
(* returns) to the filter record after the call.  The primary filter's     *)
(* fields are the variables.  The filtering algorithm and the numeric      *)
(* models are collaborators: the outlier flag of a row is an input of a    *)
(* step, and the state of the signal/uncertainty models is abstracted to   *)
(* the last observation fed to them and the number of observations fed.    *)
(* The models handed to the constructor are calibrated.                    *)
(*                                                                         *)
(* The kernels (src/src/filters/kernels.py) and the models around them     *)
(* (src/src/data_filters/models.py) are modelled on their own, with their  *)
(* arithmetic, in SpecKernel and SpecModel; the simplex searches of the    *)
(* calibration are collaborators whose results are inputs.  SpecIngest     *)
(* feeds three filters the same data, as tests/test_filters.py does.       *)
(***************************************************************************)
EXTENDS Integers, Sequences, FiniteSets, TLC

\* ---------------------------------------------------------------- bounds
MaxLen == 3
MaxThreshold == 2
MaxWarmup == 1
MaxStepsBack == 2
MaxAdd == 2
MaxSegment == 3
MaxData == 2
MaxValue == 2
MaxFed == 6
MaxWindowWarmup == 3

\* max_prediction_horizon of both kernels
max_prediction_horizon == 1

VARIABLES
    constructed,              \* the constructor returned an object
    control_parameters,
    for_recovery,
    input_data,
    results,
    current_position,
    outliers_in_a_row,
    direction,
    out_of_control_positions,
    model,                    \* state of signal_model / uncertainty_model
    raised,                   \* exception raised by the last call
    returned,                 \* FilterRow returned by the last step()
    n_recoveries,             \* calls of restore_control so far
    recovery,                 \* locals of the last restore_control call
    pc,                       \* position of the caller inside update_filter
    todo,                     \* iterations left of update_filter's loop
    last_call,                \* the method called last
    merge,                    \* arguments/result of select_out_of_control_results
    kernel,                   \* a kernel object (src/filters/kernels.py)
    model_object,             \* the SignalModel / EwmaUncertaintyModel owning it
    probe,                    \* the last call on the kernel or the model
    ingest                    \* three filters fed the same sequence

\* the objects of kernels.py and models.py, and the ingestion of test_input_data
bench_vars == << kernel, model_object, probe, ingest >>

vars == << constructed, control_parameters, for_recovery, input_data, results,
           current_position, outliers_in_a_row, direction,
           out_of_control_positions, model, raised, returned, n_recoveries,
           recovery, pc, todo, last_call, merge, kernel, model_object, probe,
           ingest >>

\* ---------------------------------------------------------------- helpers
None == [none |-> TRUE]

Min(a, b) == IF a < b THEN a ELSE b
Max(a, b) == IF a > b THEN a ELSE b

\* Python's normalisation of a slice bound against a length
slice_bound(i, n) == IF i < 0 THEN Max(n + i, 0) ELSE Min(i, n)

\* s[a:b] (0-based, b exclusive, negative bounds counted from the end)
slice(s, a, b) ==
    LET lo == slice_bound(a, Len(s))
        hi == slice_bound(b, Len(s))
    IN  IF hi <= lo THEN << >> ELSE SubSeq(s, lo + 1, hi)

\* s[a:]
slice_from(s, a) == slice(s, a, Len(s))

\* s[a:] = seg
slice_assign(s, a, seg) == slice(s, 0, slice_bound(a, Len(s))) \o seg

reversed(s) == [k \in 1..Len(s) |-> s[Len(s) + 1 - k]]

\* the value of v bound to a local name in F: v is evaluated once
Let(v, F(_)) == CHOOSE r \in { F(x) : x \in {v} } : TRUE

flag_at(flags, k) == IF k \in DOMAIN flags THEN flags[k] ELSE FALSE

NoRecovery == [at |-> -1, low |-> -1, high |-> -1,
               back_warmup |-> 0, front_warmup |-> 0,
               back_slice |-> << >>, front_slice |-> << >>,
               back_len |-> 0, front_len |-> 0,
               insertion_index |-> 0, merged_len |-> 0,
               len_before |-> 0, nested |-> 0,
               model_before |-> None, model_after_back |-> None,
               position_after_passes |-> -1,
               back_input |-> << >>, front_input |-> << >>,
               back_indices |-> << >>, front_indices |-> << >>]

NoMerge == [called |-> FALSE, back |-> << >>, front |-> << >>,
            raised |-> "none", rows |-> << >>]

InitialModel == [last |-> -1, fed |-> 0]

\* ---------------------------------------------------------------- Filter base class
\* the observation at current_position, None when every observation is consumed
get_internal_inputs(self) ==
    IF self.current_position < Len(self.input_data)
    THEN self.input_data[self.current_position + 1]
    ELSE None

\* inputs_window has size 1: every ingested index has its full context
get_last_full_requirements_index(self) == Len(self.input_data) - 1

\* results_window has size 1, position "back": the row before current_position
get_internal_results(self) ==
    IF self.current_position >= 1 /\ self.current_position <= Len(self.results)
    THEN self.results[self.current_position]
    ELSE None

\* ---------------------------------------------------------------- AlferesFilter
\* as check_control_parameters, with the threshold test off by one
check_control_parameters_zero_threshold(cp) ==
    IF cp.n_outlier_threshold < 0 THEN "ConfigurationError"
    ELSE IF cp.n_warmup_steps < 0 THEN "ConfigurationError"
    ELSE IF cp.n_steps_back < 0 THEN "ConfigurationError"
    ELSE "none"

check_control_parameters(cp) ==
    IF cp.n_outlier_threshold < 1 THEN "ConfigurationError"
    ELSE IF cp.n_warmup_steps < 0 THEN "ConfigurationError"
    ELSE IF cp.n_steps_back < 0 THEN "ConfigurationError"
    ELSE "none"

\* a new filter object: the dataclass defaults of AlferesFilter
new_filter(input, cp, recov, mdl, pass) ==
    [ input_data |-> input,
      control_parameters |-> cp,
      for_recovery |-> recov,
      results |-> << >>,
      current_position |-> 0,
      outliers_in_a_row |-> 0,
      direction |-> "forward",
      out_of_control_positions |-> None,
      model |-> mdl,
      raised |-> check_control_parameters(cp),
      returned |-> None,
      n_recoveries |-> 0,
      recovery |-> NoRecovery,
      pass |-> pass ]

\* the filtering algorithm: one row per observation, the models consume it
algorithm_step(self, observation, is_outlier) ==
    [ row |-> [index |-> observation.index,
               inputs_are_outliers |-> is_outlier,
               pass |-> self.pass],
      model |-> [last |-> observation.index, fed |-> self.model.fed + 1] ]

\* as is_out_of_control, with a strict comparison
is_out_of_control_strict(self) ==
    self.outliers_in_a_row > self.control_parameters.n_outlier_threshold

is_out_of_control(self) ==
    self.outliers_in_a_row >= self.control_parameters.n_outlier_threshold

clear_outlier_streak(self) == [self EXCEPT !.outliers_in_a_row = 0]

\* as check_for_outlier, without the reset on a non-outlier
check_for_outlier_keeps_streak(self, result) ==
    IF result.inputs_are_outliers
    THEN [self EXCEPT !.outliers_in_a_row = @ + 1]
    ELSE self

\* as check_for_outlier, an outlier starting the streak anew
check_for_outlier_counts_from_one(self, result) ==
    IF result.inputs_are_outliers
    THEN [self EXCEPT !.outliers_in_a_row = 1]
    ELSE clear_outlier_streak(self)

check_for_outlier(self, result) ==
    IF result.inputs_are_outliers
    THEN [self EXCEPT !.outliers_in_a_row = @ + 1]
    ELSE clear_outlier_streak(self)

calculate_out_of_control_positions(self) ==
    LET highest_index == Min(self.current_position, Len(self.input_data))
        lowest_index ==
            Max(self.current_position - self.control_parameters.n_steps_back, 0)
    IN  [low |-> lowest_index, high |-> highest_index]

\* as select_out_of_control_results, splitting at the rounded-up half
select_out_of_control_results_ceil(back_results, front_results) ==
    IF Len(back_results) # Len(front_results)
    THEN [raised |-> "SegmentMismatchError", rows |-> << >>]
    ELSE LET size == Len(back_results)
             keep_from_back == slice(back_results, 0, (size + 1) \div 2)
             keep_from_front == slice_from(front_results, (size + 1) \div 2)
         IN  [raised |-> "none", rows |-> keep_from_back \o keep_from_front]

\* as select_out_of_control_results, the forward pass first and the backward
\* pass last
select_out_of_control_results_back_last(back_results, front_results) ==
    IF Len(back_results) # Len(front_results)
    THEN [raised |-> "SegmentMismatchError", rows |-> << >>]
    ELSE LET size == Len(back_results)
             keep_from_front == slice(front_results, 0, size \div 2)
             keep_from_back == slice_from(back_results, size \div 2)
         IN  [raised |-> "none", rows |-> keep_from_front \o keep_from_back]

select_out_of_control_results(back_results, front_results) ==
    IF Len(back_results) # Len(front_results)
    THEN [raised |-> "SegmentMismatchError", rows |-> << >>]
    ELSE LET size == Len(back_results)
             keep_from_back == slice(back_results, 0, size \div 2)
             keep_from_front == slice_from(front_results, size \div 2)
         IN  [raised |-> "none", rows |-> keep_from_back \o keep_from_front]

\* as backward_window, with the clamp test off by one
backward_window_off_by_one(self) ==
    LET low_index == self.out_of_control_positions.low
        high_index == self.out_of_control_positions.high
        last_valid_index == Len(self.input_data) - 1
        n_warmup_steps ==
            IF self.control_parameters.n_warmup_steps + high_index
                   <= Len(self.input_data)
            THEN self.control_parameters.n_warmup_steps
            ELSE Max(last_valid_index - high_index, 0)
    IN  [n_warmup_steps |-> n_warmup_steps,
         low |-> low_index, high |-> high_index + n_warmup_steps,
         data |-> slice(self.input_data, low_index,
                        high_index + n_warmup_steps + 1)]

\* the warm-up and the slice of the backward pass (the slice before reversal)
backward_window(self) ==
    LET low_index == self.out_of_control_positions.low
        high_index == self.out_of_control_positions.high
        last_valid_index == Len(self.input_data) - 1
        n_warmup_steps ==
            IF self.control_parameters.n_warmup_steps + high_index
                   < Len(self.input_data)
            THEN self.control_parameters.n_warmup_steps
            ELSE Max(last_valid_index - high_index, 0)
    IN  [n_warmup_steps |-> n_warmup_steps,
         low |-> low_index, high |-> high_index + n_warmup_steps,
         data |-> slice(self.input_data, low_index,
                        high_index + n_warmup_steps + 1)]

\* as forward_window, the warm-up not clamped at the start of the buffer
forward_window_without_clamp(self) ==
    LET low_index == self.out_of_control_positions.low
        high_index == self.out_of_control_positions.high
        n_warmup_steps == self.control_parameters.n_warmup_steps
    IN  [n_warmup_steps |-> n_warmup_steps,
         low |-> low_index - n_warmup_steps, high |-> high_index,
         data |-> slice(self.input_data, low_index - n_warmup_steps,
                        high_index + 1)]

\* the warm-up and the slice of the forward pass
forward_window(self) ==
    LET low_index == self.out_of_control_positions.low
        high_index == self.out_of_control_positions.high
        n_warmup_steps ==
            IF self.control_parameters.n_warmup_steps - low_index < 0
            THEN self.control_parameters.n_warmup_steps
            ELSE low_index
    IN  [n_warmup_steps |-> n_warmup_steps,
         low |-> low_index - n_warmup_steps, high |-> high_index,
         data |-> slice(self.input_data, low_index - n_warmup_steps,
                        high_index + 1)]

RECURSIVE step(_, _, _, _)
RECURSIVE update_filter_from(_, _, _, _)

\* the loop of update_filter: iterations k..n, one outlier flag per iteration
update_filter_from(self, flags, k, n) ==
    IF k > n \/ self.raised # "none"
    THEN self
    ELSE Let(step(self, flag_at(flags, k), << >>, << >>),
             LAMBDA stepped : update_filter_from(stepped, flags, k + 1, n))

update_filter(self, flags) ==
    LET last_full_requirements == get_last_full_requirements_index(self)
    IN  update_filter_from(self, flags, 1,
                           last_full_requirements - self.current_position + 1)

get_new_instance_for_recovery(input, cp, mdl, pass) ==
    new_filter(input, cp, TRUE, mdl, pass)

\* runs a sub-filter over input; the parent adopts the sub-filter's models
apply_sub_filter(self, input, flags) ==
    LET fresh == get_new_instance_for_recovery(
                     input, self.control_parameters, self.model, self.direction)
    IN  Let(IF fresh.raised # "none" THEN fresh ELSE update_filter(fresh, flags),
            LAMBDA sub_filter :
                [self |-> [self EXCEPT !.model = sub_filter.model,
                                       !.raised = sub_filter.raised],
                 results |-> sub_filter.results,
                 nested |-> sub_filter.n_recoveries,
                 input_data |-> sub_filter.input_data])

backward_recovery(self, flags) ==
    LET s1 == [self EXCEPT !.direction = "backward"]
    IN  IF s1.out_of_control_positions = None
        THEN [self |-> [s1 EXCEPT !.raised = "UndefinedRecoveryWindowError"],
              results |-> << >>, nested |-> 0, input_data |-> << >>]
        ELSE LET w == backward_window(s1)
                 backwards_data == reversed(w.data)
             IN  Let(apply_sub_filter(s1, backwards_data, flags),
                     LAMBDA sub :
                         LET rows == reversed(sub.results)
                         IN  [self |-> sub.self,
                              results |->
                                  IF w.n_warmup_steps = 0 THEN rows
                                  ELSE slice(rows, 0, 0 - w.n_warmup_steps),
                              nested |-> sub.nested,
                              input_data |-> sub.input_data])

forward_recovery(self, flags) ==
    LET s1 == [self EXCEPT !.direction = "forward"]
    IN  IF s1.out_of_control_positions = None
        THEN [self |-> [s1 EXCEPT !.raised = "UndefinedRecoveryWindowError"],
              results |-> << >>, nested |-> 0, input_data |-> << >>]
        ELSE LET w == forward_window(s1)
             IN  Let(apply_sub_filter(s1, w.data, flags),
                     LAMBDA sub :
                         [self |-> sub.self,
                          results |-> slice_from(sub.results, w.n_warmup_steps),
                          nested |-> sub.nested,
                          input_data |-> sub.input_data])

\* as splice_recovered, leaving the out-of-control range set on return
splice_recovered_keeps_window(self, s1, back, front) ==
    LET out_of_control_results ==
            select_out_of_control_results(back.results, front.results)
        insertion_index ==
            self.current_position - self.control_parameters.n_steps_back
    IN  IF front.self.raised # "none"
        THEN front.self
        ELSE IF out_of_control_results.raised # "none"
        THEN [front.self EXCEPT !.raised = out_of_control_results.raised]
        ELSE [clear_outlier_streak(front.self) EXCEPT
                 !.results = slice_assign(@, insertion_index,
                                          out_of_control_results.rows)]

\* as splice_recovered, the splice starting one row before the range
splice_recovered_one_row_early(self, s1, back, front) ==
    LET out_of_control_results ==
            select_out_of_control_results(back.results, front.results)
        insertion_index ==
            self.current_position - self.control_parameters.n_steps_back - 1
        locals == [at |-> self.current_position,
                   low |-> s1.out_of_control_positions.low,
                   high |-> s1.out_of_control_positions.high,
                   back_warmup |-> backward_window(s1).n_warmup_steps,
                   front_warmup |-> forward_window(s1).n_warmup_steps,
                   back_slice |-> << backward_window(s1).low,
                                     backward_window(s1).high >>,
                   front_slice |-> << forward_window(s1).low,
                                      forward_window(s1).high >>,
                   back_len |-> Len(back.results),
                   front_len |-> Len(front.results),
                   insertion_index |-> insertion_index,
                   merged_len |-> Len(out_of_control_results.rows),
                   len_before |-> Len(self.results),
                   nested |-> back.nested + front.nested,
                   model_before |-> self.model,
                   model_after_back |-> back.self.model,
                   position_after_passes |-> front.self.current_position,
                   back_input |-> back.input_data,
                   front_input |-> front.input_data,
                   back_indices |-> [k \in 1..Len(back.results) |->
                                        back.results[k].index],
                   front_indices |-> [k \in 1..Len(front.results) |->
                                         front.results[k].index]]
    IN  IF front.self.raised # "none"
        THEN [front.self EXCEPT !.recovery = locals]
        ELSE IF out_of_control_results.raised # "none"
        THEN [front.self EXCEPT !.raised = out_of_control_results.raised,
                                !.recovery = locals]
        ELSE [clear_outlier_streak(front.self) EXCEPT
                 !.results = slice_assign(@, insertion_index,
                                          out_of_control_results.rows),
                 !.out_of_control_positions = None,
                 !.recovery = locals]

\* as splice_recovered, without clearing the outlier streak
splice_recovered_keeps_streak(self, s1, back, front) ==
    LET out_of_control_results ==
            select_out_of_control_results(back.results, front.results)
        insertion_index ==
            self.current_position - self.control_parameters.n_steps_back
        locals == [at |-> self.current_position,
                   low |-> s1.out_of_control_positions.low,
                   high |-> s1.out_of_control_positions.high,
                   back_warmup |-> backward_window(s1).n_warmup_steps,
                   front_warmup |-> forward_window(s1).n_warmup_steps,
                   back_slice |-> << backward_window(s1).low,
                                     backward_window(s1).high >>,
                   front_slice |-> << forward_window(s1).low,
                                      forward_window(s1).high >>,
                   back_len |-> Len(back.results),
                   front_len |-> Len(front.results),
                   insertion_index |-> insertion_index,
                   merged_len |-> Len(out_of_control_results.rows),
                   len_before |-> Len(self.results),
                   nested |-> back.nested + front.nested,
                   model_before |-> self.model,
                   model_after_back |-> back.self.model,
                   position_after_passes |-> front.self.current_position,
                   back_input |-> back.input_data,
                   front_input |-> front.input_data,
                   back_indices |-> [k \in 1..Len(back.results) |->
                                        back.results[k].index],
                   front_indices |-> [k \in 1..Len(front.results) |->
                                         front.results[k].index]]
    IN  IF front.self.raised # "none"
        THEN [front.self EXCEPT !.recovery = locals]
        ELSE IF out_of_control_results.raised # "none"
        THEN [front.self EXCEPT !.raised = out_of_control_results.raised,
                                !.recovery = locals]
        ELSE [front.self EXCEPT
                 !.results = slice_assign(@, insertion_index,
                                          out_of_control_results.rows),
                 !.out_of_control_positions = None,
                 !.recovery = locals]

\* restore_control once both passes have returned
splice_recovered(self, s1, back, front) ==
    LET out_of_control_results ==
            select_out_of_control_results(back.results, front.results)
        insertion_index ==
            self.current_position - self.control_parameters.n_steps_back
        locals == [at |-> self.current_position,
                   low |-> s1.out_of_control_positions.low,
                   high |-> s1.out_of_control_positions.high,
                   back_warmup |-> backward_window(s1).n_warmup_steps,
                   front_warmup |-> forward_window(s1).n_warmup_steps,
                   back_slice |-> << backward_window(s1).low,
                                     backward_window(s1).high >>,
                   front_slice |-> << forward_window(s1).low,
                                      forward_window(s1).high >>,
                   back_len |-> Len(back.results),
                   front_len |-> Len(front.results),
                   insertion_index |-> insertion_index,
                   merged_len |-> Len(out_of_control_results.rows),
                   len_before |-> Len(self.results),
                   nested |-> back.nested + front.nested,
                   model_before |-> self.model,
                   model_after_back |-> back.self.model,
                   position_after_passes |-> front.self.current_position,
                   back_input |-> back.input_data,
                   front_input |-> front.input_data,
                   back_indices |-> [k \in 1..Len(back.results) |->
                                        back.results[k].index],
                   front_indices |-> [k \in 1..Len(front.results) |->
                                         front.results[k].index]]
    IN  IF front.self.raised # "none"
        THEN [front.self EXCEPT !.recovery = locals]
        ELSE IF out_of_control_results.raised # "none"
        THEN [front.self EXCEPT !.raised = out_of_control_results.raised,
                                !.recovery = locals]
        ELSE [clear_outlier_streak(front.self) EXCEPT
                 !.results = slice_assign(@, insertion_index,
                                          out_of_control_results.rows),
                 !.out_of_control_positions = None,
                 !.recovery = locals]

\* as restore_control, the forward pass starting from the models as they
\* were before the backward pass
restore_control_forward_from_start(self, back_flags, front_flags) ==
    LET s1 == [self EXCEPT
                 !.out_of_control_positions =
                     calculate_out_of_control_positions(self),
                 !.n_recoveries = @ + 1]
    IN  Let(backward_recovery(s1, back_flags),
            LAMBDA back :
                IF back.self.raised # "none"
                THEN back.self
                ELSE Let(forward_recovery(s1, front_flags),
                         LAMBDA front : splice_recovered(self, s1, back, front)))

restore_control(self, back_flags, front_flags) ==
    LET s1 == [self EXCEPT
                 !.out_of_control_positions =
                     calculate_out_of_control_positions(self),
                 !.n_recoveries = @ + 1]
    IN  Let(backward_recovery(s1, back_flags),
            LAMBDA back :
                IF back.self.raised # "none"
                THEN back.self
                ELSE Let(forward_recovery(back.self, front_flags),
                         LAMBDA front : splice_recovered(self, s1, back, front)))

\* as recovery_is_due, without the test of n_steps_back
recovery_is_due_ignoring_steps_back(self) ==
    /\ is_out_of_control(self)
    /\ ~ self.for_recovery

\* the condition under which step() calls restore_control
recovery_is_due(self) ==
    /\ is_out_of_control(self)
    /\ ~ self.for_recovery
    /\ self.control_parameters.n_steps_back > 0

\* step() up to and including check_for_outlier
step_append(self, is_outlier) ==
    LET observation == get_internal_inputs(self)
        result == algorithm_step(self, observation, is_outlier)
        appended == [self EXCEPT !.results = Append(@, result.row),
                                 !.model = result.model,
                                 !.returned = result.row]
    IN  check_for_outlier(appended, result.row)

\* as step, returning right after a recovery, before the position advances
step_stalls_after_recovery(self, is_outlier, back_flags, front_flags) ==
    IF get_internal_inputs(self) = None
    THEN [self EXCEPT !.raised = "MissingInputError"]
    ELSE LET checked == step_append(self, is_outlier)
         IN  IF recovery_is_due(checked)
             THEN restore_control(checked, back_flags, front_flags)
             ELSE [checked EXCEPT !.current_position = @ + 1]

\* as step, advancing the position before the recovery runs
step_advances_before_recovery(self, is_outlier, back_flags, front_flags) ==
    IF get_internal_inputs(self) = None
    THEN [self EXCEPT !.raised = "MissingInputError"]
    ELSE LET checked == step_append(self, is_outlier)
             advanced == [checked EXCEPT !.current_position = @ + 1]
         IN  IF recovery_is_due(checked)
             THEN restore_control(advanced, back_flags, front_flags)
             ELSE advanced

\* as step, advancing the position before the missing input is reported
step_consumes_missing_input(self, is_outlier, back_flags, front_flags) ==
    IF get_internal_inputs(self) = None
    THEN [self EXCEPT !.raised = "MissingInputError",
                      !.current_position = @ + 1]
    ELSE LET checked == step_append(self, is_outlier)
             restored == IF recovery_is_due(checked)
                         THEN restore_control(checked, back_flags, front_flags)
                         ELSE checked
         IN  IF restored.raised # "none"
             THEN restored
             ELSE [restored EXCEPT !.current_position = @ + 1]

step(self, is_outlier, back_flags, front_flags) ==
    IF get_internal_inputs(self) = None
    THEN [self EXCEPT !.raised = "MissingInputError"]
    ELSE LET checked == step_append(self, is_outlier)
             restored == IF recovery_is_due(checked)
                         THEN restore_control(checked, back_flags, front_flags)
                         ELSE checked
         IN  IF restored.raised # "none"
             THEN restored
             ELSE [restored EXCEPT !.current_position = @ + 1]

\* ---------------------------------------------------------------- the primary filter
Self ==
    [ input_data |-> input_data,
      control_parameters |-> control_parameters,
      for_recovery |-> for_recovery,
      results |-> results,
      current_position |-> current_position,
      outliers_in_a_row |-> outliers_in_a_row,
      direction |-> direction,
      out_of_control_positions |-> out_of_control_positions,
      model |-> model,
      raised |-> "none",
      returned |-> returned,
      n_recoveries |-> n_recoveries,
      recovery |-> recovery,
      pass |-> "primary" ]

\* the primary filter's fields after a call that left the object as f
Becomes(f) ==
    /\ input_data' = f.input_data
    /\ results' = f.results
    /\ current_position' = f.current_position
    /\ outliers_in_a_row' = f.outliers_in_a_row
    /\ direction' = f.direction
    /\ out_of_control_positions' = f.out_of_control_positions
    /\ model' = f.model
    /\ raised' = f.raised
    /\ returned' = f.returned
    /\ n_recoveries' = f.n_recoveries
    /\ recovery' = f.recovery
    /\ UNCHANGED << constructed, control_parameters, for_recovery >>

\* no kernel, no model and no ingestion is under way
BenchIdle ==
    /\ kernel = None
    /\ model_object = None
    /\ probe = None
    /\ ingest = None

ParameterSpace ==
    [ n_outlier_threshold : 0..MaxThreshold,
      n_warmup_steps : (-1)..MaxWarmup,
      n_steps_back : (-1)..MaxStepsBack ]

FlagSeqs(n) == [1..n -> BOOLEAN]

\* the number of observations each recovery pass of this step will filter
sub_filter_lengths(self, is_outlier) ==
    IF get_internal_inputs(self) = None
    THEN [back |-> 0, front |-> 0]
    ELSE LET checked == step_append(self, is_outlier)
             marked == [checked EXCEPT
                          !.out_of_control_positions =
                              calculate_out_of_control_positions(checked)]
         IN  IF recovery_is_due(checked)
             THEN [back |-> Len(backward_window(marked).data),
                   front |-> Len(forward_window(marked).data)]
             ELSE [back |-> 0, front |-> 0]

\* every object step() can leave behind, over the flags the algorithm returns
StepOutcomes(self) ==
    UNION { { step(self, is_outlier, bf, ff) :
                bf \in FlagSeqs(sub_filter_lengths(self, is_outlier).back),
                ff \in FlagSeqs(sub_filter_lengths(self, is_outlier).front) } :
            is_outlier \in BOOLEAN }

Init ==
    /\ control_parameters \in ParameterSpace
    /\ for_recovery \in BOOLEAN
    /\ constructed = (check_control_parameters(control_parameters) = "none")
    /\ raised = check_control_parameters(control_parameters)
    /\ input_data = << >>
    /\ results = << >>
    /\ current_position = 0
    /\ outliers_in_a_row = 0
    /\ direction = "forward"
    /\ out_of_control_positions = None
    /\ model = InitialModel
    /\ returned = None
    /\ n_recoveries = 0
    /\ recovery = NoRecovery
    /\ pc = "idle"
    /\ todo = 0
    /\ last_call = "init"
    /\ merge = NoMerge
    /\ BenchIdle

\* add_array_to_input: n more observations, indexed by their position
AddArrayToInput(n) ==
    /\ constructed
    /\ pc = "idle"
    /\ Len(input_data) + n <= MaxLen
    /\ input_data' = input_data \o
                       [k \in 1..n |-> [index |-> Len(input_data) + k - 1]]
    /\ raised' = "none"
    /\ last_call' = "add_array_to_input"
    /\ UNCHANGED << constructed, control_parameters, for_recovery, results,
                    current_position, outliers_in_a_row, direction,
                    out_of_control_positions, model, returned, n_recoveries,
                    recovery, pc, todo, merge >>
    /\ UNCHANGED bench_vars

\* a direct call of step()
Step ==
    /\ constructed
    /\ pc = "idle"
    /\ \E f \in StepOutcomes(Self) : Becomes(f)
    /\ last_call' = "step"
    /\ UNCHANGED << pc, todo, merge >>
    /\ UNCHANGED bench_vars

\* update_filter(): the range of the loop is evaluated once, on entry
UpdateFilterCall ==
    /\ constructed
    /\ pc = "idle"
    /\ LET n == get_last_full_requirements_index(Self) - current_position + 1
       IN  /\ todo' = Max(n, 0)
           /\ pc' = IF n > 0 THEN "update_filter" ELSE "idle"
    /\ raised' = "none"
    /\ last_call' = "update_filter"
    /\ UNCHANGED << constructed, control_parameters, for_recovery, input_data,
                    results, current_position, outliers_in_a_row, direction,
                    out_of_control_positions, model, returned, n_recoveries,
                    recovery, merge >>
    /\ UNCHANGED bench_vars

\* one iteration of update_filter's loop; the call returns after the last one
UpdateFilterLoop ==
    /\ pc = "update_filter"
    /\ \E f \in StepOutcomes(Self) :
          /\ Becomes(f)
          /\ pc' = IF todo = 1 \/ f.raised # "none"
                   THEN "idle" ELSE "update_filter"
    /\ todo' = todo - 1
    /\ UNCHANGED << last_call, merge >>
    /\ UNCHANGED bench_vars

Next ==
    \/ \E n \in 1..MaxAdd : AddArrayToInput(n)
    \/ Step
    \/ UpdateFilterCall
    \/ UpdateFilterLoop

Spec == Init /\ [][Next]_vars

\* an iteration of update_filter's loop, seen from the caller
LoopIteration ==
    /\ pc = "update_filter"
    /\ todo' = todo - 1
    /\ pc' \in {"idle", "update_filter"}

\* update_filter is synchronous: once entered, its loop runs on until it returns
FairSpec == Spec /\ WF_<<pc, todo>>(LoopIteration)

\* ---------------------------------------------------------------- direct calls
\* the length of the slice backward_recovery() called now would filter
backward_window_length(self) ==
    IF self.out_of_control_positions = None THEN 0
    ELSE Len(backward_window(self).data)

\* the length of the slice forward_recovery() called now would filter
forward_window_length(self) ==
    IF self.out_of_control_positions = None THEN 0
    ELSE Len(forward_window(self).data)

\* backward_recovery() called by the user of the filter
BackwardRecoveryCall ==
    /\ constructed
    /\ pc = "idle"
    /\ \E flags \in FlagSeqs(backward_window_length(Self)) :
          Becomes(backward_recovery(Self, flags).self)
    /\ last_call' = "backward_recovery"
    /\ UNCHANGED << pc, todo, merge >>
    /\ UNCHANGED bench_vars

\* forward_recovery() called by the user of the filter
ForwardRecoveryCall ==
    /\ constructed
    /\ pc = "idle"
    /\ \E flags \in FlagSeqs(forward_window_length(Self)) :
          Becomes(forward_recovery(Self, flags).self)
    /\ last_call' = "forward_recovery"
    /\ UNCHANGED << pc, todo, merge >>
    /\ UNCHANGED bench_vars

\* ---------------------------------------------------------------- the recovery windows
\* a buffer of n observations, indexed by their position
observations(n) == [k \in 1..n |-> [index |-> k - 1]]

\* parameters the constructor accepts under which recovery can fire, the
\* warm-up reaching beyond every n_steps_back
WindowParameterSpace ==
    [ n_outlier_threshold : 1..MaxThreshold,
      n_warmup_steps : 0..MaxWindowWarmup,
      n_steps_back : 1..MaxStepsBack ]

\* a primary filter built on n observations that has stepped over the first
\* Len(flags) of them, the algorithm flagging them as flags says
filter_after(cp, n, flags) ==
    update_filter_from(
        new_filter(observations(n), cp, FALSE, InitialModel, "primary"),
        flags, 1, Len(flags))

\* a filter at any position p of a buffer longer than p
InitWindow ==
    /\ control_parameters \in WindowParameterSpace
    /\ for_recovery = FALSE
    /\ constructed = TRUE
    /\ \E n \in 1..MaxLen : \E p \in 0..(n - 1) : \E flags \in FlagSeqs(p) :
          LET f == filter_after(control_parameters, n, flags)
          IN  /\ input_data = f.input_data
              /\ results = f.results
              /\ current_position = f.current_position
              /\ outliers_in_a_row = f.outliers_in_a_row
              /\ direction = f.direction
              /\ out_of_control_positions = f.out_of_control_positions
              /\ model = f.model
              /\ raised = f.raised
              /\ returned = f.returned
              /\ n_recoveries = f.n_recoveries
              /\ recovery = f.recovery
              /\ last_call = IF p = 0 THEN "init" ELSE "step"
    /\ pc = "idle"
    /\ todo = 0
    /\ merge = NoMerge
    /\ BenchIdle

NextWindow == Step

SpecWindow == InitWindow /\ [][NextWindow]_vars

\* ---------------------------------------------------------------- the passes called directly
\* a filter that has ingested its observations and not stepped yet
InitDirect ==
    /\ InitWindow
    /\ current_position = 0
    /\ control_parameters.n_warmup_steps <= MaxWarmup

\* a user who steps and calls the recovery passes directly
NextDirect ==
    \/ Step
    \/ BackwardRecoveryCall
    \/ ForwardRecoveryCall

SpecDirect == InitDirect /\ [][NextDirect]_vars

\* ---------------------------------------------------------------- the merge on its own
\* a chronological segment of n rows of one recovery pass
Segments(pass) ==
    UNION { { [k \in 1..n |-> [index |-> k - 1,
                               inputs_are_outliers |-> flags[k],
                               pass |-> pass]] : flags \in FlagSeqs(n) } :
            n \in 0..MaxSegment }

InitMerge ==
    /\ control_parameters = [n_outlier_threshold |-> 1, n_warmup_steps |-> 0,
                             n_steps_back |-> 0]
    /\ for_recovery = FALSE
    /\ constructed = TRUE
    /\ raised = "none"
    /\ input_data = << >>
    /\ results = << >>
    /\ current_position = 0
    /\ outliers_in_a_row = 0
    /\ direction = "forward"
    /\ out_of_control_positions = None
    /\ model = InitialModel
    /\ returned = None
    /\ n_recoveries = 0
    /\ recovery = NoRecovery
    /\ pc = "idle"
    /\ todo = 0
    /\ last_call = "init"
    /\ \E b \in Segments("backward"), f \in Segments("forward") :
          merge = [NoMerge EXCEPT !.back = b, !.front = f]
    /\ BenchIdle

\* a call of select_out_of_control_results(merge.back, merge.front)
SelectOutOfControlResults ==
    /\ ~ merge.called
    /\ LET out == select_out_of_control_results(merge.back, merge.front)
       IN  merge' = [merge EXCEPT !.called = TRUE,
                                  !.raised = out.raised,
                                  !.rows = out.rows]
    /\ last_call' = "select_out_of_control_results"
    /\ UNCHANGED << constructed, control_parameters, for_recovery, input_data,
                    results, current_position, outliers_in_a_row, direction,
                    out_of_control_positions, model, raised, returned,
                    n_recoveries, recovery, pc, todo >>
    /\ UNCHANGED bench_vars

NextMerge == SelectOutOfControlResults

SpecMerge == InitMerge /\ [][NextMerge]_vars

\* ---------------------------------------------------------------- numbers
\* The floats of kernels.py and models.py are dyadic rationals n / 2^e kept
\* in lowest terms: sums, products and halvings of such numbers are exact in
\* binary floating point at the sizes reached here.
Num(v) == [n |-> v, e |-> 0]

HalfUnit == [n |-> 1, e |-> 1]

RECURSIVE Norm(_)
Norm(x) ==
    IF x.e > 0 /\ x.n % 2 = 0
    THEN Norm([n |-> x.n \div 2, e |-> x.e - 1])
    ELSE x

Plus(a, b) ==
    LET e == Max(a.e, b.e)
    IN  Norm([n |-> a.n * 2^(e - a.e) + b.n * 2^(e - b.e), e |-> e])

Times(a, b) == Norm([n |-> a.n * b.n, e |-> a.e + b.e])

Minus(a, b) == Plus(a, Times(Num(-1), b))

Less(a, b) == a.n * 2^(b.e) < b.n * 2^(a.e)

Largest(a, b) == IF Less(a, b) THEN b ELSE a

\* a / b: float division raises on a zero divisor; the quotient is exact for
\* a zero dividend and for a divisor +-1/2^k, the cases the factors below reach
divide(a, b) ==
    IF b.n = 0
    THEN [raised |-> "ZeroDivisionError", value |-> Num(0)]
    ELSE [raised |-> "none",
          value |-> IF a.n = 0 THEN Num(0)
                    ELSE Norm([n |-> a.n * b.n * 2^(b.e), e |-> a.e])]

\* np.median of a nonempty array: the middle of the sorted values
RECURSIVE sorted(_)
sorted(s) ==
    IF Len(s) <= 1 THEN s
    ELSE LET smallest == CHOOSE i \in 1..Len(s) :
                             \A j \in 1..Len(s) : ~ Less(s[j], s[i])
             others == [k \in 1..(Len(s) - 1) |->
                           IF k < smallest THEN s[k] ELSE s[k + 1]]
         IN  << s[smallest] >> \o sorted(others)

median(s) ==
    LET t == sorted(s)
        m == Len(s) \div 2
    IN  IF Len(s) % 2 = 1 THEN t[m + 1]
        ELSE Times(HalfUnit, Plus(t[m], t[m + 1]))

\* ---------------------------------------------------------------- kernels.py
\* the orders of EwmaKernel1 and EwmaKernel3
Orders == {1, 3}

\* forgetting factors 0, 1/2 and 1
Factors == {Num(0), HalfUnit, Num(1)}

auto_regresive(current_value, preceding_stat, forgetting_factor) ==
    Plus(Times(forgetting_factor, current_value),
         Times(Minus(Num(1), forgetting_factor), preceding_stat))

\* as __post_init__, leaving the initialized flag as it is
post_init_keeps_initialized(self) ==
    LET cleared == [self EXCEPT
                      !.last_prediction =
                          IF self.order = 1 THEN << Num(0) >> ELSE << >>,
                      !.previous_s_stats =
                          IF self.order = 3
                          THEN << Num(0), Num(0), Num(0) >> ELSE << >>,
                      !.current_s_stats =
                          IF self.order = 3
                          THEN << Num(0), Num(0), Num(0) >> ELSE << >>]
    IN  IF Less(self.forgetting_factor, Num(0))
           \/ Less(Num(1), self.forgetting_factor)
        THEN [kernel |-> cleared, raised |-> "ValueError"]
        ELSE [kernel |-> cleared, raised |-> "none"]

\* __post_init__ of both kernels: zeroed state, the factor validated
post_init(self) ==
    LET cleared == [self EXCEPT
                      !.last_prediction =
                          IF self.order = 1 THEN << Num(0) >> ELSE << >>,
                      !.previous_s_stats =
                          IF self.order = 3
                          THEN << Num(0), Num(0), Num(0) >> ELSE << >>,
                      !.current_s_stats =
                          IF self.order = 3
                          THEN << Num(0), Num(0), Num(0) >> ELSE << >>]
    IN  IF Less(self.forgetting_factor, Num(0))
           \/ Less(Num(1), self.forgetting_factor)
        THEN [kernel |-> cleared, raised |-> "ValueError"]
        ELSE [kernel |-> [cleared EXCEPT !.initialized = FALSE],
              raised |-> "none"]

\* EwmaKernel1(forgetting_factor) / EwmaKernel3(forgetting_factor)
new_kernel(order, forgetting_factor) ==
    post_init([order |-> order,
               forgetting_factor |-> forgetting_factor,
               initialized |-> FALSE,
               last_prediction |-> << >>,
               previous_s_stats |-> << >>,
               current_s_stats |-> << >>])

reset_state(self) == post_init(self)

initialize(self, initial_values) ==
    IF self.order = 1
    THEN [self EXCEPT !.last_prediction = initial_values,
                      !.initialized = TRUE]
    ELSE [self EXCEPT
            !.previous_s_stats = [k \in 1..3 |-> initial_values[1]],
            !.current_s_stats = [k \in 1..3 |-> initial_values[1]],
            !.initialized = TRUE]

compute_a(self) ==
    LET s == self.current_s_stats
    IN  Plus(Minus(Times(Num(3), s[1]), Times(Num(3), s[2])), s[3])

compute_b(self) ==
    LET s == self.current_s_stats
        f == self.forgetting_factor
        factor == divide(f, Times(Num(2), Times(Minus(f, Num(1)),
                                                Minus(f, Num(1)))))
        term_1 == Times(Minus(Num(6), Times(Num(5), f)), s[1])
        term_2 == Times(Times(Num(-2), Minus(Num(5), Times(Num(4), f))), s[2])
        term_3 == Times(Minus(Num(4), Times(Num(3), f)), s[3])
    IN  [raised |-> factor.raised,
         value |-> Times(factor.value, Plus(Plus(term_1, term_2), term_3))]

compute_c(self) ==
    LET s == self.current_s_stats
        f == self.forgetting_factor
        ratio == divide(f, Minus(f, Num(1)))
    IN  [raised |-> ratio.raised,
         value |-> Times(Times(ratio.value, ratio.value),
                         Plus(Minus(s[1], Times(Num(2), s[2])), s[3]))]

update_s_stats(self, current_value) ==
    LET previous == self.current_s_stats
        s1 == auto_regresive(current_value, previous[1], self.forgetting_factor)
        s2 == auto_regresive(s1, previous[2], self.forgetting_factor)
        s3 == auto_regresive(s2, previous[3], self.forgetting_factor)
    IN  [self EXCEPT !.previous_s_stats = previous,
                     !.current_s_stats = << s1, s2, s3 >>]

\* _predict_step of both kernels on one element
predict_step(self, value) ==
    LET seeded == IF self.initialized THEN self
                  ELSE initialize(self, << value >>)
    IN  IF self.order = 1
        THEN LET prediction == auto_regresive(value, seeded.last_prediction[1],
                                              seeded.forgetting_factor)
             IN  [kernel |-> [seeded EXCEPT !.last_prediction = << prediction >>],
                  raised |-> "none", value |-> prediction]
        ELSE LET updated == update_s_stats(seeded, value)
                 b == compute_b(updated)
                 c == compute_c(updated)
             IN  IF b.raised # "none"
                 THEN [kernel |-> updated, raised |-> b.raised, value |-> Num(0)]
                 ELSE IF c.raised # "none"
                 THEN [kernel |-> updated, raised |-> c.raised, value |-> Num(0)]
                 ELSE [kernel |-> updated, raised |-> "none",
                       value |-> Plus(Plus(compute_a(updated), b.value),
                                      Times(HalfUnit, c.value))]

\* the loop of predict from element k on
RECURSIVE predict_from(_, _, _, _)
predict_from(self, input, k, output) ==
    IF k > Len(input)
    THEN [kernel |-> self, raised |-> "none", output |-> output]
    ELSE Let(predict_step(self, input[k]),
             LAMBDA one :
                 IF one.raised # "none"
                 THEN [kernel |-> one.kernel, raised |-> one.raised,
                       output |-> << >>]
                 ELSE predict_from(one.kernel, input, k + 1,
                                   Append(output, one.value)))

\* as kernel_predict, testing the horizon after the elements are consumed
kernel_predict_checks_horizon_last(self, input, horizon) ==
    LET out == predict_from(self, input, 1, << >>)
    IN  IF out.raised = "none" /\ horizon > 1
        THEN [out EXCEPT !.raised = "InvalidHorizonError", !.output = << >>]
        ELSE out

\* predict of both kernels; max_prediction_horizon is 1
kernel_predict(self, input, horizon) ==
    IF horizon > 1
    THEN [kernel |-> self, raised |-> "InvalidHorizonError", output |-> << >>]
    ELSE predict_from(self, input, 1, << >>)

\* a dict of initial guesses is a function from its keys; dict.get(key, default)
get(dict, key, default) == IF key \in DOMAIN dict THEN dict[key] ELSE default

EmptyDict == [key \in {} |-> Num(0)]

\* optimize_forgetting_factor: the simplex search is a collaborator; it starts
\* from the kernel's forgetting factor and returns the factor it found
optimize_forgetting_factor(input_values, self, found) ==
    [start |-> self.forgetting_factor, forgetting_factor |-> found]

\* calibrate of both kernels
kernel_calibrate(self, input_values, initial_guesses, found) ==
    IF initial_guesses = None
    THEN [kernel |-> self, raised |-> "AttributeError", output |-> << >>,
          start |-> None]
    ELSE LET guessed == [self EXCEPT
                           !.forgetting_factor =
                               get(initial_guesses, "forgetting_factor", @)]
             fitted == optimize_forgetting_factor(input_values, guessed, found)
             reset == reset_state([guessed EXCEPT
                                     !.forgetting_factor =
                                         fitted.forgetting_factor])
         IN  IF reset.raised # "none"
             THEN [kernel |-> reset.kernel, raised |-> reset.raised,
                   output |-> << >>, start |-> fitted.start]
             ELSE Let(kernel_predict(reset.kernel, slice_from(input_values, 1),
                                     max_prediction_horizon),
                      LAMBDA out : [kernel |-> out.kernel,
                                    raised |-> out.raised,
                                    output |-> out.output,
                                    start |-> fitted.start])

\* ---------------------------------------------------------------- models.py
STANDARD_DEV_FACTOR == [n |-> 5, e |-> 2]

\* SignalModel(kernel, horizon); the calibrated flag of Model starts unset
new_signal_model(horizon) ==
    [kind |-> "signal", calibrated |-> FALSE, horizon |-> horizon,
     initial_uncertainty |-> None, minimum_uncertainty |-> None,
     uncertainty_gain |-> None]

\* EwmaUncertaintyModel(kernel, initial_uncertainty, minimum_uncertainty,
\* uncertainty_gain); the calibrated flag of UncertaintyModel starts unset
new_uncertainty_model(initial_uncertainty, minimum_uncertainty, uncertainty_gain) ==
    [kind |-> "uncertainty", calibrated |-> FALSE,
     horizon |-> max_prediction_horizon,
     initial_uncertainty |-> initial_uncertainty,
     minimum_uncertainty |-> minimum_uncertainty,
     uncertainty_gain |-> uncertainty_gain]

\* the result of a call on a model: the model, its kernel, what was raised
\* and what was returned
outcome(self, k, raised_, output) ==
    [model |-> self, kernel |-> k, raised |-> raised_, output |-> output,
     median |-> None]

SignalModel_predict(self, k, input_values) ==
    IF ~ self.calibrated
    THEN outcome(self, k, "NotCalibratedError", << >>)
    ELSE Let(kernel_predict(k, input_values, self.horizon),
             LAMBDA out : outcome(self, out.kernel, out.raised, out.output))

\* as SignalModel_calibrate, forgetting to set the calibrated flag
SignalModel_calibrate_without_flag(self, k, input_values, initial_guesses, found) ==
    Let(kernel_calibrate(k, input_values, initial_guesses, found),
        LAMBDA fit :
            IF fit.raised # "none"
            THEN outcome(self, fit.kernel, fit.raised, << >>)
            ELSE SignalModel_predict(self, fit.kernel, input_values))

SignalModel_calibrate(self, k, input_values, initial_guesses, found) ==
    Let(kernel_calibrate(k, input_values, initial_guesses, found),
        LAMBDA fit :
            IF fit.raised # "none"
            THEN outcome(self, fit.kernel, fit.raised, << >>)
            ELSE SignalModel_predict([self EXCEPT !.calibrated = TRUE],
                                     fit.kernel, input_values))

SignalModel_reset(self, k) ==
    LET reset == reset_state(k)
    IN  IF reset.raised # "none"
        THEN outcome(self, reset.kernel, reset.raised, << >>)
        ELSE outcome([self EXCEPT !.calibrated = FALSE], reset.kernel,
                     "none", << >>)

\* objective_initial_uncertainty with objective "minimum uncertainty": the
\* kernel re-seeded with initial_uncertainty, and the median of its predictions
objective_initial_uncertainty(initial_uncertainty, k, signal_deviations) ==
    LET reset == reset_state(k)
    IN  IF reset.raised # "none"
        THEN [kernel |-> reset.kernel, raised |-> reset.raised,
              value |-> Num(0)]
        ELSE Let(kernel_predict(initialize(reset.kernel,
                                           << initial_uncertainty >>),
                                signal_deviations, max_prediction_horizon),
                 LAMBDA out :
                     [kernel |-> out.kernel, raised |-> out.raised,
                      value |-> IF out.raised = "none"
                                THEN median(out.output) ELSE Num(0)])

\* optimize_initial_uncertainty: the simplex search is a collaborator; it
\* returns the value it found and leaves the kernel as its last evaluation of
\* the objective (on the candidate last_tried) left it
optimize_initial_uncertainty(input_values, k, initial_guess, found, last_tried) ==
    LET last == objective_initial_uncertainty(last_tried, k, input_values)
    IN  [kernel |-> last.kernel, raised |-> last.raised, value |-> found]

\* x or 0.0
or_zero(x) == IF x = None \/ x = Num(0) THEN Num(0) ELSE x

calibrate_minimum_uncertainty(signal_deviation, k, calibrated_initial_uncertainty, minimum_from_settings) ==
    LET objective == objective_initial_uncertainty(
                         calibrated_initial_uncertainty, k, signal_deviation)
    IN  [objective EXCEPT
           !.value = Largest(@, or_zero(minimum_from_settings))]

EwmaUncertaintyModel_predict(self, k, input_values) ==
    IF ~ self.calibrated
    THEN outcome(self, k, "NotCalibratedError", << >>)
    ELSE Let(kernel_predict(k, input_values, max_prediction_horizon),
             LAMBDA out :
                 outcome(self, out.kernel, out.raised,
                         [i \in 1..Len(out.output) |->
                             Times(Times(STANDARD_DEV_FACTOR,
                                         self.uncertainty_gain),
                                   Largest(self.minimum_uncertainty,
                                           out.output[i]))]))

\* the search of calibrate for initial_uncertainty, when it was not supplied
derive_initial_uncertainty(self, k, input_values, initial_guesses, found_initial, last_tried) ==
    LET guess_initial_uncertainty ==
            IF initial_guesses # EmptyDict
            THEN initial_guesses["initial_uncertainty"]
            ELSE or_zero(self.initial_uncertainty)
    IN  IF self.initial_uncertainty = None
        THEN optimize_initial_uncertainty(input_values, k,
                                          guess_initial_uncertainty,
                                          found_initial, last_tried)
        ELSE [kernel |-> k, raised |-> "none",
              value |-> self.initial_uncertainty]

\* the derivation of minimum_uncertainty by calibrate, when it was not supplied
derive_minimum_uncertainty(self, k, input_values) ==
    IF self.minimum_uncertainty = None
    THEN calibrate_minimum_uncertainty(input_values, k,
                                       self.initial_uncertainty,
                                       self.minimum_uncertainty)
    ELSE [kernel |-> k, raised |-> "none", value |-> self.minimum_uncertainty]

\* calibrate of EwmaUncertaintyModel; found, found_initial and last_tried are
\* what the two simplex searches return and try last.  The outcome carries
\* the median prediction of the kernel re-seeded with the calibrated
\* initial_uncertainty, whether or not calibrate computed it.
EwmaUncertaintyModel_calibrate(self, k, input_values, initial_guesses, found, found_initial, last_tried) ==
    Let(kernel_calibrate(k, input_values, initial_guesses, found),
        LAMBDA fit :
          IF fit.raised # "none"
          THEN outcome(self, fit.kernel, fit.raised, << >>)
          ELSE IF /\ initial_guesses # EmptyDict
                  /\ "initial_uncertainty" \notin DOMAIN initial_guesses
          THEN outcome(self, fit.kernel, "KeyError", << >>)
          ELSE
          Let(derive_initial_uncertainty(self, fit.kernel, input_values,
                                         initial_guesses, found_initial,
                                         last_tried),
              LAMBDA searched :
                IF searched.raised # "none"
                THEN outcome(self, searched.kernel, searched.raised, << >>)
                ELSE
                Let(derive_minimum_uncertainty(
                        [self EXCEPT !.initial_uncertainty = searched.value],
                        searched.kernel, input_values),
                    LAMBDA derived :
                      IF derived.raised # "none"
                      THEN outcome([self EXCEPT
                                      !.initial_uncertainty = searched.value],
                                   derived.kernel, derived.raised, << >>)
                      ELSE
                      Let(objective_initial_uncertainty(
                              searched.value, searched.kernel, input_values),
                          LAMBDA reseeded :
                            [EwmaUncertaintyModel_predict(
                                 [self EXCEPT
                                    !.initial_uncertainty = searched.value,
                                    !.minimum_uncertainty = derived.value,
                                    !.calibrated = TRUE],
                                 derived.kernel, input_values)
                               EXCEPT !.median = reseeded.value]))))

\* ---------------------------------------------------------------- kernels and models on their own
\* the filter is not part of these runs
filter_vars == << constructed, control_parameters, for_recovery, input_data,
                  results, current_position, outliers_in_a_row, direction,
                  out_of_control_positions, model, raised, returned,
                  n_recoveries, recovery, pc, todo, last_call, merge >>

FilterIdle ==
    /\ control_parameters = [n_outlier_threshold |-> 1, n_warmup_steps |-> 0,
                             n_steps_back |-> 0]
    /\ for_recovery = FALSE
    /\ constructed = TRUE
    /\ raised = "none"
    /\ input_data = << >>
    /\ results = << >>
    /\ current_position = 0
    /\ outliers_in_a_row = 0
    /\ direction = "forward"
    /\ out_of_control_positions = None
    /\ model = InitialModel
    /\ returned = None
    /\ n_recoveries = 0
    /\ recovery = NoRecovery
    /\ pc = "idle"
    /\ todo = 0
    /\ last_call = "init"
    /\ merge = NoMerge

\* The series a model is calibrated on and predicts is drawn once per
\* behaviour (probe.series); a kernel on its own is fed any sequence.
\* the observations fed to kernels and models
Observations == {Num(0), Num(2)}

ObservationSeqs(lo, hi) == UNION { [1..n -> Observations] : n \in lo..hi }

Horizons == 1..(max_prediction_horizon + 1)

\* the factor a simplex search can return: exp(-x^2) is above 0, and for the
\* order-3 kernel below 1
Fits(order) == IF order = 1 THEN {HalfUnit, Num(1)} ELSE {HalfUnit}

Guesses == { None, EmptyDict, [forgetting_factor |-> HalfUnit],
             [forgetting_factor |-> Num(1), initial_uncertainty |-> Num(1)] }

Uncertainties == {Num(0), Num(1)}

NoProbe == [op |-> "none", raised |-> "none", output |-> << >>,
            input |-> << >>, horizon |-> 0, guesses |-> None,
            before |-> None, model_before |-> None, median |-> None,
            series |-> << >>, fed |-> 0, after_reset |-> FALSE,
            attempted |-> FALSE, completed |-> FALSE, was_reset |-> FALSE]

InitKernel ==
    /\ FilterIdle
    /\ \E order \in Orders, f \in Factors :
          kernel = new_kernel(order, f).kernel
    /\ model_object = None
    /\ probe = NoProbe
    /\ ingest = None

\* kernel.initialize(np.array([v]))
KernelInitialize(v) ==
    /\ kernel' = initialize(kernel, << v >>)
    /\ probe' = [probe EXCEPT !.op = "initialize", !.raised = "none",
                              !.output = << >>, !.input = << v >>,
                              !.horizon = 0, !.before = kernel,
                              !.after_reset = FALSE]
    /\ UNCHANGED << model_object, ingest >>
    /\ UNCHANGED filter_vars

\* kernel.predict(input, horizon)
KernelPredict(input, horizon) ==
    /\ probe.fed + Len(input) <= MaxFed
    /\ LET out == kernel_predict(kernel, input, horizon)
       IN  /\ kernel' = out.kernel
           /\ probe' = [probe EXCEPT
                          !.op = "predict", !.raised = out.raised,
                          !.output = out.output, !.input = input,
                          !.horizon = horizon, !.before = kernel,
                          !.fed = IF horizon > max_prediction_horizon
                                  THEN @ ELSE @ + Len(input),
                          !.after_reset = probe.op = "reset_state"]
    /\ UNCHANGED << model_object, ingest >>
    /\ UNCHANGED filter_vars

\* kernel.reset_state()
KernelReset ==
    /\ LET out == reset_state(kernel)
       IN  /\ kernel' = out.kernel
           /\ probe' = [probe EXCEPT
                          !.op = "reset_state", !.raised = out.raised,
                          !.output = << >>, !.input = << >>, !.horizon = 0,
                          !.before = kernel, !.fed = 0,
                          !.after_reset = FALSE]
    /\ UNCHANGED << model_object, ingest >>
    /\ UNCHANGED filter_vars

NextKernel ==
    \/ \E v \in Observations : KernelInitialize(v)
    \/ \E input \in ObservationSeqs(0, MaxData), horizon \in Horizons :
          KernelPredict(input, horizon)
    \/ KernelReset

SpecKernel == InitKernel /\ [][NextKernel]_vars

InitModel ==
    /\ FilterIdle
    /\ \E order \in Orders, f \in Factors :
          kernel = new_kernel(order, f).kernel
    /\ \/ \E horizon \in Horizons : model_object = new_signal_model(horizon)
       \/ \E initial \in {None, Num(1)}, minimum \in {None, Num(1)} :
             model_object = new_uncertainty_model(initial, minimum, Num(1))
    /\ \E series \in ObservationSeqs(1, MaxData) :
          probe = [NoProbe EXCEPT !.series = series]
    /\ ingest = None

\* the model and the probe after a call that ended as out
ModelCall(op, out, input, guesses) ==
    /\ kernel' = out.kernel
    /\ model_object' = out.model
    /\ probe' = [probe EXCEPT
                   !.op = op, !.raised = out.raised, !.output = out.output,
                   !.input = input, !.guesses = guesses,
                   !.model_before = model_object, !.median = out.median,
                   !.fed = IF op = "predict" /\ out.raised = "none"
                           THEN @ + Len(input)
                           ELSE IF op = "calibrate" /\ out.kernel # kernel
                           THEN 2 * Len(input)
                           ELSE IF op = "reset" THEN 0 ELSE @,
                   !.attempted = IF op = "reset" THEN FALSE
                                 ELSE @ \/ op = "calibrate",
                   !.completed =
                       IF op = "reset" THEN FALSE
                       ELSE @ \/ (op = "calibrate" /\ out.raised = "none"),
                   !.was_reset = IF op = "reset" THEN probe.completed
                                 ELSE @ /\ op # "calibrate"]
    /\ UNCHANGED ingest
    /\ UNCHANGED filter_vars

\* model.calibrate(probe.series, initial_guesses)
ModelCalibrate(initial_guesses) ==
    \E input_values \in {probe.series}, found \in Fits(kernel.order) :
        IF model_object.kind = "signal"
        THEN ModelCall("calibrate",
                       SignalModel_calibrate(model_object, kernel, input_values,
                                             initial_guesses, found),
                       input_values, initial_guesses)
        ELSE \E found_initial \in Uncertainties, last_tried \in Uncertainties :
                ModelCall("calibrate",
                          EwmaUncertaintyModel_calibrate(
                              model_object, kernel, input_values,
                              initial_guesses, found, found_initial,
                              last_tried),
                          input_values, initial_guesses)

\* model.predict(probe.series)
ModelPredict ==
    /\ probe.fed + Len(probe.series) <= MaxFed
    /\ ModelCall("predict",
                 IF model_object.kind = "signal"
                 THEN SignalModel_predict(model_object, kernel, probe.series)
                 ELSE EwmaUncertaintyModel_predict(model_object, kernel,
                                                   probe.series),
                 probe.series, None)

\* signal_model.reset()
ModelReset ==
    /\ model_object.kind = "signal"
    /\ ModelCall("reset", SignalModel_reset(model_object, kernel), << >>, None)

NextModel ==
    \/ \E initial_guesses \in Guesses : ModelCalibrate(initial_guesses)
    \/ ModelPredict
    \/ ModelReset

SpecModel == InitModel /\ [][NextModel]_vars

\* ---------------------------------------------------------------- ingestion
\* what add_array_to_input is given: an array of rows, or one row of an array
Array(values) == [kind |-> "array", values |-> values]
Scalar(value) == [kind |-> "scalar", value |-> value]

\* the rows of an item: one row of an array is an array of one row
as_rows(item) ==
    IF item.kind = "scalar" THEN << item.value >> ELSE item.values

\* the input buffer of a filter constructed with input_data = item
new_input_data(item) ==
    IF item = None THEN None ELSE [rows |-> as_rows(item)]

\* as add_array_to_input, putting the new rows in front of the buffer
add_array_to_input_in_front(buffer, item) ==
    IF buffer = None
    THEN [rows |-> as_rows(item)]
    ELSE [rows |-> as_rows(item) \o buffer.rows]

\* add_array_to_input: the rows of the item are appended to the buffer
add_array_to_input(buffer, item) ==
    IF buffer = None
    THEN [rows |-> as_rows(item)]
    ELSE [rows |-> buffer.rows \o as_rows(item)]

\* test_input_data: one filter is constructed on the data, two without data
InitIngest ==
    /\ FilterIdle
    /\ kernel = None
    /\ model_object = None
    /\ probe = None
    /\ \E data \in UNION { [1..n -> 0..MaxValue] : n \in 1..MaxLen } :
          ingest = [data |-> data,
                    filter_on_input |-> new_input_data(Array(data)),
                    filter_add_array |-> new_input_data(None),
                    filter_add_individual_array_item |-> new_input_data(None),
                    bulk_added |-> FALSE,
                    added |-> 0]

\* filter_add_array.add_array_to_input(data)
AddArray ==
    /\ ~ ingest.bulk_added
    /\ ingest' = [ingest EXCEPT
                    !.filter_add_array =
                        add_array_to_input(@, Array(ingest.data)),
                    !.bulk_added = TRUE]
    /\ UNCHANGED << kernel, model_object, probe >>
    /\ UNCHANGED filter_vars

\* filter_add_individual_array_item.add_array_to_input(row), next row of data
AddArrayItem ==
    /\ ingest.added < Len(ingest.data)
    /\ ingest' = [ingest EXCEPT
                    !.filter_add_individual_array_item =
                        add_array_to_input(
                            @, Scalar(ingest.data[ingest.added + 1])),
                    !.added = @ + 1]
    /\ UNCHANGED << kernel, model_object, probe >>
    /\ UNCHANGED filter_vars

NextIngest ==
    \/ AddArray
    \/ AddArrayItem

SpecIngest == InitIngest /\ [][NextIngest]_vars

\* ---------------------------------------------------------------- properties
\* a call of step() is in progress in this transition
StepTaken == pc = "update_filter" \/ (pc = "idle" /\ last_call' = "step")

\* the step of this transition read an observation and returned normally
StepReturned == StepTaken /\ current_position < Len(input_data)

Indices(rows) == [k \in 1..Len(rows) |-> rows[k].index]

\* C1: at every step boundary the result log is as long as the position:
\* len(results) == current_position
C1_LengthIsPosition == constructed => Len(results) = current_position

\* C2: the result log holds exactly one row per processed index
\* 0..current_position-1, in increasing order
C2_OneRowPerIndex ==
    constructed => Indices(results) = [k \in 1..current_position |-> k - 1]

\* C3: after a step whose row is not an outlier the streak is 0; after an
\* outlier step without recovery it is the previous streak + 1; after a step
\* in which recovery ran it is 0
C3_StreakRule ==
    [][StepReturned =>
         /\ (~ returned'.inputs_are_outliers => outliers_in_a_row' = 0)
         /\ (returned'.inputs_are_outliers /\ n_recoveries' = n_recoveries
                => outliers_in_a_row' = outliers_in_a_row + 1)
         /\ (n_recoveries' # n_recoveries => outliers_in_a_row' = 0)]_vars

C3_Witness ==
    /\ n_recoveries >= 1
    /\ recovery.at < current_position - 1
    /\ returned # None
    /\ returned.inputs_are_outliers
    /\ outliers_in_a_row = 1

\* C4: a step runs recovery exactly when the streak, after the step's update,
\* has reached n_outlier_threshold, the filter is not a recovery sub-filter and
\* n_steps_back > 0; a recovery sub-filter never recovers
C4_RecoveryCondition ==
    /\ [][StepReturned =>
            LET streak == IF returned'.inputs_are_outliers
                          THEN outliers_in_a_row + 1 ELSE 0
                due == /\ streak >= control_parameters.n_outlier_threshold
                       /\ ~ for_recovery
                       /\ control_parameters.n_steps_back > 0
            IN  n_recoveries' = n_recoveries + (IF due THEN 1 ELSE 0)]_vars
    /\ [][~ StepReturned => n_recoveries' = n_recoveries]_vars
    /\ [](for_recovery => n_recoveries = 0)
    /\ [](recovery.nested = 0)

C4_Witness ==
    /\ n_recoveries = 1
    /\ recovery.at = current_position - 1
    /\ control_parameters.n_outlier_threshold = 2
    /\ recovery.back_len >= 2

\* C5: with n_steps_back = 0 no step runs recovery or raises, the result log
\* is only appended to, and the streak may pass the threshold
C5_ZeroStepsBack ==
    [][constructed /\ control_parameters.n_steps_back = 0 =>
         /\ n_recoveries' = 0
         /\ \/ results' = results
            \/ results' = Append(results, returned')
         /\ (StepReturned =>
               /\ raised' = "none"
               /\ current_position' = current_position + 1
               /\ results' = Append(results, returned')
               /\ outliers_in_a_row' =
                    IF returned'.inputs_are_outliers
                    THEN outliers_in_a_row + 1 ELSE 0)]_vars

C5_Witness ==
    /\ control_parameters.n_steps_back = 0
    /\ control_parameters.n_warmup_steps > 0
    /\ ~ for_recovery
    /\ outliers_in_a_row > control_parameters.n_outlier_threshold

\* C6: construction fails with a ConfigurationError, before any step, exactly
\* when n_outlier_threshold < 1 or n_warmup_steps < 0 or n_steps_back < 0
C6_ParametersValidated ==
    LET valid == /\ control_parameters.n_outlier_threshold >= 1
                 /\ control_parameters.n_warmup_steps >= 0
                 /\ control_parameters.n_steps_back >= 0
    IN  /\ constructed <=> valid
        /\ ~ valid => /\ raised = "ConfigurationError"
                      /\ last_call = "init"
                      /\ current_position = 0
                      /\ results = << >>
        /\ (valid /\ last_call = "init") => raised = "none"

C6_Witness ==
    /\ control_parameters.n_outlier_threshold = 0
    /\ control_parameters.n_warmup_steps >= 0
    /\ control_parameters.n_steps_back >= 0
    /\ ~ constructed
    /\ raised = "ConfigurationError"

\* C7: in every recovery run from step() the backward and the forward pass
\* return equally many rows, so SegmentMismatchError is never raised
C7_EqualSegments ==
    /\ raised # "SegmentMismatchError"
    /\ recovery.at >= 0 => recovery.back_len = recovery.front_len

C7_Witness ==
    /\ recovery.at >= 0
    /\ recovery.back_warmup < control_parameters.n_warmup_steps
    /\ recovery.front_warmup = control_parameters.n_warmup_steps
    /\ recovery.back_len = recovery.front_len
    /\ recovery.back_len >= 2

\* C8: the merge of two segments of N rows has N rows, row k from the backward
\* pass for k < N // 2 and from the forward pass for k >= N // 2; segments of
\* unequal length raise SegmentMismatchError and give no merged segment
C8_MergeHalves ==
    merge.called =>
        LET N == Len(merge.back)
        IN  IF Len(merge.back) = Len(merge.front)
            THEN /\ merge.raised = "none"
                 /\ Len(merge.rows) = N
                 /\ \A k \in 0..(N - 1) :
                       merge.rows[k + 1] = IF k < N \div 2
                                           THEN merge.back[k + 1]
                                           ELSE merge.front[k + 1]
                 /\ Cardinality({k \in 1..N : merge.rows[k].pass = "backward"})
                        = N \div 2
                 /\ Cardinality({k \in 1..N : merge.rows[k].pass = "forward"})
                        = N - N \div 2
                 /\ Indices(merge.rows) = [k \in 1..N |-> k - 1]
            ELSE /\ merge.raised = "SegmentMismatchError"
                 /\ merge.rows = << >>

C8_Witness ==
    /\ merge.called
    /\ Len(merge.back) = 3
    /\ Len(merge.front) = 3
    /\ merge.rows[1].pass = "backward"
    /\ merge.rows[2].pass = "forward"

\* C9: update_filter() steps once per unconsumed observation without raising,
\* returns with current_position equal to the length of the input buffer, and
\* a further call with no new input performs no step
C9_UpdateFilterCompletes ==
    /\ [](pc = "update_filter" =>
            /\ todo > 0
            /\ todo = Len(input_data) - current_position)
    /\ [][pc = "update_filter" =>
            /\ current_position' = current_position + 1
            /\ raised' = "none"
            /\ input_data' = input_data]_vars
    /\ []((pc = "idle" /\ last_call = "update_filter") =>
            /\ current_position = Len(input_data)
            /\ raised = "none")
    /\ [][(pc = "idle" /\ last_call' = "update_filter"
             /\ current_position = Len(input_data)) =>
            /\ pc' = "idle"
            /\ UNCHANGED << results, current_position, outliers_in_a_row,
                            model, n_recoveries >>]_vars
    /\ (pc = "update_filter" ~> pc = "idle")

C9_Witness ==
    /\ pc = "idle"
    /\ last_call = "update_filter"
    /\ current_position = Len(input_data)
    /\ current_position >= 3
    /\ n_recoveries >= 1
    /\ control_parameters.n_warmup_steps > 0

\* C10: step() with no unconsumed observation raises MissingInputError and
\* leaves the result log, the position, the streak and the models untouched
C10_MissingInput ==
    [][(StepTaken /\ current_position >= Len(input_data)) =>
         /\ raised' = "MissingInputError"
         /\ UNCHANGED << results, current_position, outliers_in_a_row, model,
                         input_data, n_recoveries, direction,
                         out_of_control_positions >>]_vars

C10_Witness ==
    /\ raised = "MissingInputError"
    /\ last_call = "step"
    /\ current_position >= 1
    /\ current_position = Len(input_data)

\* C11: every step() that returns normally advances current_position by
\* exactly one, with or without a recovery; restore_control and its two
\* sub-filters see and leave the parent's position as it was before the
\* step, the increment coming after them; no other call moves the position
C11_PositionAdvancesByOne ==
    [][ /\ (StepReturned /\ raised' = "none") =>
              /\ current_position' = current_position + 1
              /\ n_recoveries' # n_recoveries =>
                    /\ recovery'.at = current_position
                    /\ recovery'.position_after_passes = current_position
        /\ ~ StepTaken => current_position' = current_position ]_vars

C11_Witness ==
    /\ last_call = "step"
    /\ raised = "none"
    /\ n_recoveries >= 1
    /\ recovery.at = current_position - 1
    /\ current_position >= 2

\* the number of observations in the inclusive index range <<low, high>>
range_size(r) == r[2] - r[1] + 1

\* a restore_control ran to its end in this transition
RecoveryCompleted == n_recoveries' # n_recoveries /\ raised' = "none"

\* C12: in a recovery the backward sub-filter consumes its whole slice
\* first (ending on the lowest index), the forward sub-filter then starts
\* from the model state the backward pass left, and the parent ends up with
\* the forward sub-filter's final model state, the one reached on consuming
\* the observation at the parent's current position
C12_BackwardThenForward ==
    [][ RecoveryCompleted =>
          LET r == recovery'
          IN  /\ r.model_before = [last |-> current_position,
                                   fed |-> model.fed + 1]
              /\ r.model_after_back =
                     [last |-> r.low,
                      fed |-> r.model_before.fed + range_size(r.back_slice)]
              /\ model' =
                     [last |-> current_position,
                      fed |-> r.model_after_back.fed
                                 + range_size(r.front_slice)]
              /\ direction' = "forward" ]_vars

C12_Witness ==
    /\ last_call = "step"
    /\ raised = "none"
    /\ n_recoveries >= 1
    /\ recovery.at = current_position - 1
    /\ recovery.low < recovery.at
    /\ model.fed = recovery.model_after_back.fed
                      + range_size(recovery.front_slice)
    /\ recovery.model_after_back.fed > recovery.model_before.fed

\* backward_recovery() or forward_recovery() was called directly
DirectRecoveryCall ==
    pc = "idle" /\ last_call' \in {"backward_recovery", "forward_recovery"}

ModelCalled(op) == probe' # probe /\ probe'.op = op

\* C14: for SignalModel and EwmaUncertaintyModel alike, predict() raises
\* NotCalibratedError, and consumes nothing, whenever the calibrated flag is
\* unset, which it is as long as calibrate() was not called since
\* construction or the last reset(); it never raises it once a calibrate()
\* has returned; calibrate() sets the flag before it predicts, so that it
\* never raises the error itself and leaves the flag set when it returns, and
\* SignalModel.reset() unsets it and puts the kernel back to its unseeded
\* state
C14_CalibratedFlag ==
    /\ [](model_object # None =>
            /\ ~ probe.attempted => ~ model_object.calibrated
            /\ probe.completed => model_object.calibrated)
    /\ [][ /\ ModelCalled("predict") =>
                 /\ (probe'.raised = "NotCalibratedError")
                        = ~ model_object.calibrated
                 /\ ~ model_object.calibrated =>
                        UNCHANGED << kernel, model_object >>
           /\ ModelCalled("calibrate") =>
                 /\ probe'.raised # "NotCalibratedError"
                 /\ probe'.raised = "none" => model_object'.calibrated
           /\ ModelCalled("reset") =>
                 /\ ~ model_object'.calibrated
                 /\ kernel' = new_kernel(kernel.order,
                                         kernel.forgetting_factor).kernel
         ]_vars

C14_Witness ==
    /\ probe.op = "predict"
    /\ probe.raised = "NotCalibratedError"
    /\ probe.was_reset
    /\ Len(probe.input) >= 1

\* a call on the kernel returned or raised in this transition
KernelCalled(op) == probe' # probe /\ probe'.op = op

\* C15: predict() of either kernel with a horizon above max_prediction_horizon
\* raises InvalidHorizonError whatever the input, before any element is
\* consumed: the recursive state and the initialized flag are as before
C15_InvalidHorizon ==
    [][ (KernelCalled("predict") /\ probe'.horizon > max_prediction_horizon) =>
            /\ probe'.raised = "InvalidHorizonError"
            /\ kernel' = kernel ]_vars

C15_Witness ==
    /\ probe.op = "predict"
    /\ probe.horizon = max_prediction_horizon + 1
    /\ probe.raised = "InvalidHorizonError"
    /\ Len(probe.input) >= 2
    /\ kernel.initialized
    /\ kernel.order = 3

\* C17: reset_state() of either kernel, after any initialize/predict calls,
\* leaves the kernel as a newly constructed one with the same forgetting
\* factor: uninitialized; the next predict() seeds from the first element it
\* is given and returns what a new kernel with that factor returns
C17_ResetIsFresh ==
    LET fresh == new_kernel(kernel.order, kernel.forgetting_factor).kernel
    IN  /\ probe.op = "reset_state" =>
              /\ kernel = fresh
              /\ ~ kernel.initialized
              /\ kernel.forgetting_factor = probe.before.forgetting_factor
        /\ (probe.op = "predict" /\ probe.after_reset
                /\ probe.horizon <= max_prediction_horizon) =>
              LET expected == kernel_predict(fresh, probe.input, probe.horizon)
              IN  /\ probe.raised = expected.raised
                  /\ probe.output = expected.output
                  /\ kernel = expected.kernel
                  /\ Len(probe.input) >= 1 => kernel.initialized
                  /\ Len(probe.output) >= 1 =>
                        probe.output[1] = probe.input[1]

C17_Witness ==
    /\ probe.op = "predict"
    /\ probe.after_reset
    /\ probe.raised = "none"
    /\ Len(probe.output) >= 2
    /\ probe.output[2] # probe.output[1]
    /\ probe.output[1] # Num(0)

\* C18: calibrate() called without initial guesses completes: the search
\* starts from the kernel's current forgetting factor, and the call returns
\* with the model calibrated on the fitted factor
C18_CalibrateWithoutGuess ==
    (probe.op = "calibrate" /\ probe.guesses = None) =>
        /\ probe.raised = "none"
        /\ model_object.calibrated
        /\ kernel.forgetting_factor \in Fits(kernel.order)

\* C20: after calibrate() of the uncertainty model minimum_uncertainty is
\* the larger of the median prediction of the kernel re-seeded with the
\* calibrated initial_uncertainty (probe.median) and the floor supplied at
\* construction (none counting as zero), so never below either; a supplied
\* initial_uncertainty is kept
C20_MinimumUncertainty ==
    (/\ probe.op = "calibrate"
     /\ probe.raised = "none"
     /\ model_object.kind = "uncertainty") =>
        /\ model_object.minimum_uncertainty =
              Largest(probe.median,
                      or_zero(probe.model_before.minimum_uncertainty))
        /\ probe.model_before.initial_uncertainty # None =>
              model_object.initial_uncertainty =
                  probe.model_before.initial_uncertainty

\* C16: a nonempty sequence passed at construction, added with one
\* add_array_to_input call, or added row by row in order, gives the same
\* input buffer: the rows of the sequence in their order
C16_IngestionAgrees ==
    ingest # None =>
        /\ ingest.filter_on_input = [rows |-> ingest.data]
        /\ ingest.bulk_added =>
              ingest.filter_add_array = ingest.filter_on_input
        /\ ingest.added = Len(ingest.data) =>
              ingest.filter_add_individual_array_item = ingest.filter_on_input

C16_Witness ==
    /\ ingest # None
    /\ ingest.bulk_added
    /\ ingest.added = Len(ingest.data)
    /\ Len(ingest.data) >= 2
    /\ ingest.data[1] # ingest.data[2]
    /\ ingest.filter_add_individual_array_item = ingest.filter_add_array

\* the observations of the inclusive index range r of an input buffer
observations_in(input, r) == SubSeq(input, r[1] + 1, r[2] + 1)

\* C21: a recovery leaves the input buffer, the control parameters, the
\* position and every result row below max(current_position - n_steps_back, 0)
\* as they were before restore_control(); each sub-filter ends with the slice
\* of the input buffer it was given, the parent's buffer untouched
C21_RecoveryFrame ==
    [][RecoveryCompleted =>
         LET low == Max(current_position - control_parameters.n_steps_back, 0)
         IN  /\ input_data' = input_data
             /\ control_parameters' = control_parameters
             /\ for_recovery' = for_recovery
             /\ recovery'.position_after_passes = current_position
             /\ current_position' = current_position + 1
             /\ Len(results') >= low
             /\ \A k \in 1..low : results'[k] = results[k]
             /\ recovery'.back_input =
                    reversed(observations_in(input_data, recovery'.back_slice))
             /\ recovery'.front_input =
                    observations_in(input_data, recovery'.front_slice)]_vars

C21_Witness ==
    /\ raised = "none"
    /\ n_recoveries = 1
    /\ recovery.at = current_position - 1
    /\ recovery.low >= 1
    /\ results[1].pass = "primary"
    /\ results[recovery.low + 1].pass # "primary"
    /\ Len(recovery.back_input) >= 2

\* C22: wherever recovery fires (position p of a buffer of L > p
\* observations, n_steps_back >= 1, n_warmup_steps >= 0, also larger than
\* n_steps_back) both slices lie inside [0, L-1], the backward pass adds
\* min(n_warmup_steps, L-1-p) warm-up rows and the forward pass
\* min(n_warmup_steps, low), and each pass returns, after trimming them, one
\* row per index of [low, p], low = max(p - n_steps_back, 0), in order
C22_WindowsInsideBuffer ==
    recovery.at >= 0 =>
        LET p == recovery.at
            L == Len(input_data)
            warmup == control_parameters.n_warmup_steps
            low == Max(p - control_parameters.n_steps_back, 0)
            segment == [k \in 1..(p - low + 1) |-> low + k - 1]
        IN  /\ L > p
            /\ recovery.low = low
            /\ recovery.high = p
            /\ recovery.back_warmup = Min(warmup, L - 1 - p)
            /\ recovery.front_warmup = Min(warmup, low)
            /\ recovery.back_slice = << low, p + recovery.back_warmup >>
            /\ recovery.front_slice = << low - recovery.front_warmup, p >>
            /\ \A r \in {recovery.back_slice, recovery.front_slice} :
                  /\ 0 <= r[1]
                  /\ r[1] <= r[2]
                  /\ r[2] <= L - 1
            /\ Len(recovery.back_input) = range_size(recovery.back_slice)
            /\ Len(recovery.front_input) = range_size(recovery.front_slice)
            /\ segment # << >>
            /\ recovery.back_indices = segment
            /\ recovery.front_indices = segment

C22_Witness ==
    /\ raised = "none"
    /\ recovery.at = current_position - 1
    /\ control_parameters.n_steps_back < control_parameters.n_warmup_steps
    /\ recovery.front_warmup >= 1
    /\ recovery.front_warmup < control_parameters.n_warmup_steps
    /\ recovery.back_warmup = 0
    /\ Len(recovery.front_indices) = 2

\* C23: a primary filter with n_steps_back > 0 is never out of control once
\* step() has returned: outliers_in_a_row < n_outlier_threshold, whatever
\* the outlier flags were
C23_NeverOutOfControl ==
    (constructed /\ ~ for_recovery /\ control_parameters.n_steps_back > 0) =>
        outliers_in_a_row < control_parameters.n_outlier_threshold

C23_Witness ==
    /\ ~ for_recovery
    /\ control_parameters.n_steps_back > 0
    /\ control_parameters.n_outlier_threshold = 2
    /\ last_call = "step"
    /\ raised = "none"
    /\ n_recoveries = 1
    /\ recovery.at = current_position - 1
    /\ returned.inputs_are_outliers
    /\ outliers_in_a_row = 0

\* C24: after a completed recovery the last row of the result log comes from
\* the forward pass, whatever the size N >= 1 of the merged segment (N = 1
\* included); it is the row of the position the recovery ran at, the
\* observation the adopted models consumed last
C24_LastRowFromForwardPass ==
    (recovery.at >= 0 /\ recovery.at = current_position - 1) =>
        /\ recovery.merged_len >= 1
        /\ results # << >>
        /\ results[Len(results)].pass = "forward"
        /\ results[Len(results)].index = recovery.at
        /\ model.last = results[Len(results)].index

C24_Witness ==
    /\ raised = "none"
    /\ recovery.at = 0
    /\ current_position = 1
    /\ recovery.merged_len = 1
    /\ recovery.back_len = 1
    /\ results = << [index |-> 0, inputs_are_outliers |-> FALSE,
                     pass |-> "forward"] >>

RECURSIVE outliers_at_end(_)
\* the number of consecutive outlier rows at the end of a result log
outliers_at_end(rows) ==
    IF rows = << >> THEN 0
    ELSE IF ~ rows[Len(rows)].inputs_are_outliers THEN 0
    ELSE 1 + outliers_at_end(SubSeq(rows, 1, Len(rows) - 1))

\* C25: in a filter that never recovers (for_recovery set, or
\* n_steps_back = 0) outliers_in_a_row is, at every step boundary, the number
\* of consecutive outlier rows at the end of the result log
C25_StreakCountsTrailingOutliers ==
    (constructed /\ (for_recovery \/ control_parameters.n_steps_back = 0)) =>
        outliers_in_a_row = outliers_at_end(results)

C25_Witness ==
    /\ for_recovery
    /\ control_parameters.n_steps_back > 0
    /\ control_parameters.n_outlier_threshold = 1
    /\ Len(results) = 3
    /\ ~ results[1].inputs_are_outliers
    /\ outliers_in_a_row = 2
    /\ n_recoveries = 0

====
